---- MODULE Spec2Model ----
(***************************************************************************)
(* Model of src/kubric/dataset.py: KubricSequence (intrinsics, __len__,    *)
(* _load_pkl, _image_space_to_depth, __getitem__) and KubricSequenceLoader.*)
(*                                                                         *)
(* Floating-point numbers are modelled as extended rationals <<n, d>>:     *)
(*   d > 0  : the finite value n/d, in lowest terms                        *)
(*   <<0,0>>: NaN,   <<1,0>>: +inf,   <<-1,0>>: -inf                       *)
(* Arithmetic is exact on finite values (no rounding error is modelled)    *)
(* and follows IEEE-754 on the special values.                             *)
(* numpy arrays are modelled as sequences, index k of the code being       *)
(* index k+1 of the model.                                                 *)
(***************************************************************************)
EXTENDS Integers, Sequences, FiniteSets, TLC

VARIABLES
    data,    \* KubricSequence.data: the unpickled bundle
    rgi,     \* which interval search the installed RegularGridInterpolator uses
    call,    \* the last call made: [op, idx]
    ret,     \* what the last call returned or raised
    memo,    \* history: one earlier __getitem__ call and what it returned
    resolve, \* arguments of a direct _image_space_to_depth call
    fs,      \* the storage directory: file -> content
    files    \* KubricSequenceLoader.files

vars == <<data, rgi, call, ret, memo, resolve, fs, files>>

----------------------------------------------------------------------------
(* Bounds of the model                                                     *)

MaxDim == 3          \* depth maps are H x W with 2 <= H, W <= MaxDim
MaxFrames == 2       \* num_frames ranges over 2 .. MaxFrames
MaxParticles == 2    \* tracked particles per sequence
MaxMeta == 3         \* focal_length, sensor_width, width, height <= MaxMeta
MaxStem == 3         \* file names in the storage directory

----------------------------------------------------------------------------
(* Extended rationals                                                      *)

NaN == <<0, 0>>
PosInf == <<1, 0>>
NegInf == <<-1, 0>>

Abs(n) == IF n < 0 THEN -n ELSE n

Sign(n) == IF n < 0 THEN -1 ELSE IF n = 0 THEN 0 ELSE 1

RECURSIVE Gcd(_, _)
Gcd(a, b) == IF b = 0 THEN a ELSE Gcd(b, a % b)

\* n/d in lowest terms with a positive denominator (d # 0)
Rat(n, d) ==
    LET g == Gcd(Abs(n), Abs(d))
        s == IF d < 0 THEN -1 ELSE 1
    IN  <<(s * n) \div g, (s * d) \div g>>

FInt(n) == <<n, 1>>

IsFinite(a) == a[2] # 0

IsNaN(a) == a = NaN

FNeg(a) == <<-a[1], a[2]>>

FAdd(a, b) ==
    IF IsNaN(a) \/ IsNaN(b) THEN NaN
    ELSE IF ~IsFinite(a) /\ ~IsFinite(b) THEN (IF a = b THEN a ELSE NaN)
    ELSE IF ~IsFinite(a) THEN a
    ELSE IF ~IsFinite(b) THEN b
    ELSE Rat(a[1] * b[2] + b[1] * a[2], a[2] * b[2])

FSub(a, b) == FAdd(a, FNeg(b))

FMul(a, b) ==
    IF IsNaN(a) \/ IsNaN(b) THEN NaN
    ELSE IF ~IsFinite(a) \/ ~IsFinite(b)
         THEN (IF a[1] = 0 \/ b[1] = 0 THEN NaN
               ELSE <<Sign(a[1]) * Sign(b[1]), 0>>)
    ELSE Rat(a[1] * b[1], a[2] * b[2])

\* a / b for a divisor b that is finite and not zero
FDiv(a, b) ==
    IF IsNaN(a) THEN NaN
    ELSE IF ~IsFinite(a) THEN <<Sign(a[1]) * Sign(b[1]), 0>>
    ELSE Rat(a[1] * b[2], a[2] * b[1])

\* IEEE comparison: false as soon as one side is NaN
FLess(a, b) ==
    IF IsNaN(a) \/ IsNaN(b) THEN FALSE
    ELSE IF ~IsFinite(a) THEN a = NegInf /\ b # NegInf
    ELSE IF ~IsFinite(b) THEN b = PosInf
    ELSE a[1] * b[2] < b[1] * a[2]

Floor(a) == a[1] \div a[2]

\* np.round: to the nearest integer, halves to the even neighbour;
\* NaN and the infinities are returned as they are
NpRound(a) ==
    IF ~IsFinite(a) THEN a
    ELSE LET q == a[1] \div a[2]
             r == a[1] % a[2]
         IN  IF 2 * r < a[2] THEN FInt(q)
             ELSE IF 2 * r > a[2] THEN FInt(q + 1)
             ELSE IF q % 2 = 0 THEN FInt(q) ELSE FInt(q + 1)

Ceil(a) == -((-a[1]) \div a[2])

Min(a, b) == IF a < b THEN a ELSE b

Max(a, b) == IF a < b THEN b ELSE a

----------------------------------------------------------------------------
(* KubricSequence._image_space_to_depth                                    *)
(*                                                                         *)
(* An N x k array is [cols |-> k, rows |-> <<row_1, ..., row_N>>]; a depth *)
(* frame is a sequence of H rows of W pixels of C channels.                *)

IntervalRules == {"searchsorted", "find_interval"}

\* The cell index RegularGridInterpolator picks on the grid 0 .. n-1 for an
\* in-bounds coordinate x: np.searchsorted(grid, x) - 1 clipped to 0 .. n-2
\* (scipy < 1.10), or the i with grid[i] <= x < grid[i+1], n-2 at the upper end
\* (find_interval_ascending, scipy >= 1.10)
FindIndex(rule, n, x) ==
    IF rule = "searchsorted"
    THEN Max(0, Min(n - 2, Ceil(x) - 1))
    ELSE Min(n - 2, Floor(x))

\* Variant: out-of-range queries are answered from the nearest border cell
\* instead of with fill_value
RgiEdge(rule, values, p0, p1) ==
    LET H == Len(values)
        W == Len(values[1])
        clip(x, n) == IF FLess(x, FInt(0)) THEN 0
                      ELSE IF FLess(FInt(n - 1), x) THEN n - 1
                      ELSE Floor(x)
    IN  IF ~IsFinite(p0) \/ ~IsFinite(p1) THEN NaN
        ELSE values[clip(p0, H) + 1][clip(p1, W) + 1]

\* One query of RegularGridInterpolator((arange(H), arange(W)), values,
\* bounds_error=False) at (p0, p1), method "linear", fill_value nan
RgiLinear(rule, values, p0, p1) ==
    LET H == Len(values)
        W == Len(values[1])
    IN  IF IsNaN(p0) \/ IsNaN(p1) THEN NaN
        ELSE IF \/ FLess(p0, FInt(0)) \/ FLess(FInt(H - 1), p0)
                \/ FLess(p1, FInt(0)) \/ FLess(FInt(W - 1), p1)
        THEN NaN
        ELSE LET i0 == FindIndex(rule, H, p0)
                 i1 == FindIndex(rule, W, p1)
                 y0 == FSub(p0, FInt(i0))
                 y1 == FSub(p1, FInt(i1))
                 w0(a) == IF a = 0 THEN FSub(FInt(1), y0) ELSE y0
                 w1(b) == IF b = 0 THEN FSub(FInt(1), y1) ELSE y1
                 term(a, b) == FMul(values[i0 + a + 1][i1 + b + 1],
                                    FMul(w0(a), w1(b)))
             IN  FAdd(FAdd(FAdd(FAdd(FInt(0), term(0, 0)), term(0, 1)),
                           term(1, 0)), term(1, 1))

\* depth_entries[:, :, 0]
Channel0(depth_entries) ==
    [r \in 1..Len(depth_entries) |->
        [c \in 1..Len(depth_entries[r]) |-> depth_entries[r][c][1]]]

\* Lines 56-66: the queries, rounded in "nearest" mode, looked up as (y, x)
Interpolate(rule, positions, depth_entries, interpolation_type) ==
    LET values == Channel0(depth_entries)
        x_q(k) == IF interpolation_type = "nearest"
                  THEN NpRound(positions.rows[k][1])
                  ELSE positions.rows[k][1]
        y_q(k) == IF interpolation_type = "nearest"
                  THEN NpRound(positions.rows[k][2])
                  ELSE positions.rows[k][2]
    IN  [k \in 1..Len(positions.rows) |->
            <<RgiLinear(rule, values, y_q(k), x_q(k))>>]

\* Variant: the shapes are validated only after the interpolation has run
_image_space_to_depth_late(rule, positions, depth_entries, interpolation_type) ==
    IF positions.cols # 2 \/ Len(depth_entries[1][1]) # 1
    THEN [err |-> "AssertionError",
          steps |-> <<"RegularGridInterpolator", "interpolate">>,
          depths |-> <<>>]
    ELSE [err |-> "none",
          steps |-> <<"RegularGridInterpolator", "interpolate">>,
          depths |-> Interpolate(rule, positions, depth_entries,
                                 interpolation_type)]

\* The whole method: [err, steps, depths]; steps lists the interpolator calls made
_image_space_to_depth(rule, positions, depth_entries, interpolation_type) ==
    IF positions.cols # 2
    THEN [err |-> "AssertionError", steps |-> <<>>, depths |-> <<>>]
    ELSE IF Len(depth_entries[1][1]) # 1
    THEN [err |-> "AssertionError", steps |-> <<>>, depths |-> <<>>]
    ELSE [err |-> "none",
          steps |-> <<"RegularGridInterpolator", "interpolate">>,
          depths |-> Interpolate(rule, positions, depth_entries,
                                 interpolation_type)]

----------------------------------------------------------------------------
(* KubricSequence.intrinsics and __len__                                   *)

\* Variant: the doubling written back, self.data["camera"]["focal_length"] *= 2
intrinsics_data_doubling(d) ==
    [d EXCEPT !.camera.focal_length = FMul(@, FInt(2))]

\* What evaluating the property leaves in self.data: lines 13-28 assign nothing
intrinsics_data(d) == d

\* Variant: the principal point by floor division, input_size // 2
intrinsics_floordiv(d) ==
    LET focal_length == FMul(d.camera.focal_length, FInt(2))
        input_size_x == d.metadata.width
        input_size_y == d.metadata.height
        sensor_width == d.camera.sensor_width
        f_x == FMul(FDiv(focal_length, sensor_width),
                    FDiv(input_size_x, FInt(2)))
        f_y == FDiv(FMul(f_x, input_size_x), input_size_y)
    IN  [fx |-> f_x, fy |-> f_y,
         cx |-> FInt(Floor(FDiv(input_size_x, FInt(2)))),
         cy |-> FInt(Floor(FDiv(input_size_y, FInt(2))))]

intrinsics(d) ==
    LET focal_length == FMul(d.camera.focal_length, FInt(2))
        input_size_x == d.metadata.width
        input_size_y == d.metadata.height
        sensor_width == d.camera.sensor_width
        f_x == FMul(FDiv(focal_length, sensor_width),
                    FDiv(input_size_x, FInt(2)))
        f_y == FDiv(FMul(f_x, input_size_x), input_size_y)
    IN  [fx |-> f_x, fy |-> f_y,
         cx |-> FDiv(input_size_x, FInt(2)),
         cy |-> FDiv(input_size_y, FInt(2))]

__len__(d) == d.metadata.num_frames - 1

----------------------------------------------------------------------------
(* The collaborators of __getitem__ (module datastructures)                *)

SE3_from_rot_w_x_y_z_translation_x_y_z(quaternion, position) ==
    [rotation |-> quaternion, translation |-> position]

\* Pinhole unprojection of pixel (u, v) at depth dpt
Unproject(u, v, dpt, K) ==
    <<FDiv(FMul(FSub(u, K.cx), dpt), K.fx),
      FDiv(FMul(FSub(v, K.cy), dpt), K.fy),
      dpt>>

\* One 3-D point per pixel of the depth image
from_field_of_view_depth_image(image, K) ==
    [r \in 1..Len(image) |->
        [c \in 1..Len(image[r]) |->
            Unproject(FInt(c - 1), FInt(r - 1), image[r][c], K)]]

\* One 3-D point per (2-D coordinate, depth) pair
from_field_of_view_points_and_depth(points, depths, K) ==
    [k \in 1..Len(points.rows) |->
        Unproject(points.rows[k][1], points.rows[k][2], depths[k][1], K)]

ParticleFrame(points, is_occluded) ==
    [points |-> points, is_occluded |-> is_occluded]

----------------------------------------------------------------------------
(* KubricSequence.__getitem__                                              *)

\* Python's index rule on an axis of length n
ValidIndex(n, idx) == -n <= idx /\ idx < n

PyIndex(n, idx) == IF idx < 0 THEN idx + n + 1 ELSE idx + 1

\* The positions (in order) at which mask is TRUE
RECURSIVE WhereTrue(_)
WhereTrue(mask) ==
    IF mask = <<>> THEN <<>>
    ELSE LET n == Len(mask)
             init == WhereTrue(SubSeq(mask, 1, n - 1))
         IN  IF mask[n] THEN Append(init, n) ELSE init

\* ~is_occluded
Not(mask) == [p \in 1..Len(mask) |-> ~mask[p]]

\* array[mask], the rows at which mask is TRUE, in order
BoolSelect(array, mask) ==
    LET w == WhereTrue(mask)
    IN  [cols |-> array.cols, rows |-> [k \in 1..Len(w) |-> array.rows[w[k]]]]

\* Variant: array[:len(values)] = values
BoolAssignPrefix(array, mask, values) ==
    [p \in 1..Len(array) |-> IF p <= Len(values) THEN values[p] ELSE array[p]]

\* array[mask] = values: the k-th TRUE position receives values[k]
BoolAssign(array, mask, values) ==
    LET w == WhereTrue(mask)
        rank(p) == CHOOSE k \in 1..Len(w) : w[k] = p
    IN  [p \in 1..Len(array) |-> IF mask[p] THEN values[rank(p)] ELSE array[p]]

\* Variant: np.empty((n, 3)), whose slots hold no defined number
np_empty(n) == [p \in 1..n |-> <<NaN, NaN, NaN>>]

\* np.zeros((n, 3))
np_zeros(n) == [p \in 1..n |-> <<FInt(0), FInt(0), FInt(0)>>]

\* Variant: np.isfinite(depths).any()
any_finite(depths) == \E k \in 1..Len(depths) : IsFinite(depths[k][1])

\* np.isfinite(depths).all()
all_finite(depths) == \A k \in 1..Len(depths) : IsFinite(depths[k][1])

Raised(e, steps, d) ==
    [err |-> e, steps |-> steps, value |-> <<>>, used |-> <<>>, data |-> d]

Returned(v, steps, used, d) ==
    [err |-> "none", steps |-> steps, value |-> <<v>>, used |-> used, data |-> d]

\* The frames the per-frame arrays hold
FrameCount(d) == Len(d.rgb_video)

\* [err, steps, value, used, data]: the exception or the Frame Sample, the
\* collaborators called, the intrinsics handed to the two back-projections,
\* and self.data afterwards
__getitem__(rule, d, idx) ==
    IF ~ValidIndex(FrameCount(d), idx) THEN Raised("IndexError", <<>>, d)
    ELSE
    LET f == PyIndex(FrameCount(d), idx)
        rgb == d.rgb_video[f]
        depth == d.depth_video[f]
        position == d.camera.positions[f]
        quaternion == d.camera.quaternions[f]
        target_points ==
            [cols |-> d.target_points.cols,
             rows |-> [p \in 1..Len(d.target_points.pts) |->
                          d.target_points.pts[p][f]]]
        is_occluded == [p \in 1..Len(d.occluded) |-> d.occluded[p][f]]
        unoccluded_target_points == BoolSelect(target_points, Not(is_occluded))
        resolved == _image_space_to_depth(rule, unoccluded_target_points,
                                          depth, "nearest")
        unoccluded_target_depths == resolved.depths
    IN  IF resolved.err # "none" THEN Raised(resolved.err, resolved.steps, d)
        ELSE IF Len(unoccluded_target_depths) # Len(unoccluded_target_points.rows)
        THEN Raised("AssertionError", resolved.steps, d)
        ELSE IF ~all_finite(unoccluded_target_depths)
        THEN Raised("AssertionError", resolved.steps, d)
        ELSE
        LET pose == SE3_from_rot_w_x_y_z_translation_x_y_z(quaternion, position)
            K1 == intrinsics(d)
            d1 == intrinsics_data(d)
            pointcloud == from_field_of_view_depth_image(Channel0(depth), K1)
            K2 == intrinsics(d1)
            d2 == intrinsics_data(d1)
            unoccluded_target_points_3d ==
                from_field_of_view_points_and_depth(
                    unoccluded_target_points, unoccluded_target_depths, K2)
            target_points_3d ==
                BoolAssign(np_zeros(Len(target_points.rows)), Not(is_occluded),
                           unoccluded_target_points_3d)
            particle_frame == ParticleFrame(target_points_3d, is_occluded)
        IN  Returned([pose |-> pose, pointcloud |-> pointcloud,
                      particles |-> particle_frame, rgb |-> rgb],
                     resolved.steps \o <<"SE3", "PointCloud.dense",
                                         "PointCloud.sparse", "ParticleFrame">>,
                     <<K1, K2>>, d2)

----------------------------------------------------------------------------
(* The sequences the model loads                                           *)

\* (H, W) of the frames
FrameShapes == {<<2, 3>>}

\* A particle's track in half pixels: (x0, y0) at frame 0, moved by (dx, dy)
\* per frame
Tracks ==
    <<[x0 |-> 2, y0 |-> 0, dx |-> 0, dy |-> 2],
      [x0 |-> -1, y0 |-> 1, dx |-> 2, dy |-> 0],
      [x0 |-> -4, y0 |-> 2, dx |-> 4, dy |-> 0]>>

\* Particle p follows track p + off, cyclically
TracksFrom(off) ==
    [p \in 1..MaxParticles |-> Tracks[((p + off) % Len(Tracks)) + 1]]

OccPatterns == {"never", "always", "even"}

OccAt(pattern, f) ==
    CASE pattern = "never" -> FALSE
      [] pattern = "always" -> TRUE
      [] OTHER -> (f % 2 = 1)

\* One pixel of frame 0 whose stored depth is not finite, or no such pixel
Holes ==
    {[r |-> 0, c |-> 0, v |-> FInt(0)],
     [r |-> 1, c |-> 1, v |-> NaN],
     [r |-> 1, c |-> 2, v |-> NaN],
     [r |-> 2, c |-> 2, v |-> PosInf]}

MkData(shape, nf, cols, chans, hole, tracks, occs) ==
    LET H == shape[1]
        W == shape[2]
        pixel(f, r, c) ==
            IF f = 1 /\ hole.r = r /\ hole.c = c THEN hole.v
            ELSE FInt((f - 1) * H * W + (r - 1) * W + c)
        row(p, f) ==
            LET x == Rat(tracks[p].x0 + (f - 1) * tracks[p].dx, 2)
                y == Rat(tracks[p].y0 + (f - 1) * tracks[p].dy, 2)
            IN  IF cols = 2 THEN <<x, y>>
                ELSE IF cols = 1 THEN <<x>> ELSE <<x, y, FInt(0)>>
    IN  [camera |-> [focal_length |-> FInt(1), sensor_width |-> FInt(2),
                     positions |-> [f \in 1..nf |-> <<f, 0, 0>>],
                     quaternions |-> [f \in 1..nf |-> <<1, 0, 0, f>>]],
         metadata |-> [width |-> FInt(W), height |-> FInt(H), num_frames |-> nf],
         rgb_video |-> [f \in 1..nf |-> f],
         depth_video |->
            [f \in 1..nf |-> [r \in 1..H |-> [c \in 1..W |->
                [ch \in 1..chans |-> pixel(f, r, c)]]]],
         target_points |->
            [cols |-> cols,
             pts |-> [p \in 1..Len(tracks) |-> [f \in 1..nf |-> row(p, f)]]],
         occluded |->
            [p \in 1..Len(tracks) |-> [f \in 1..nf |-> OccAt(occs[p], f)]]]

WellFormed ==
    {MkData(shape, nf, 2, 1, hole, tracks, occs) :
        shape \in FrameShapes, nf \in 2..MaxFrames, hole \in Holes,
        tracks \in {TracksFrom(off) : off \in 1..Len(Tracks)},
        occs \in [1..MaxParticles -> OccPatterns]}

\* Wrong coordinate dimensionality or wrong channel count
Malformed ==
    {MkData(shape, nf, sh[1], sh[2], CHOOSE h \in Holes : h.r = 0,
            [p \in 1..MaxParticles |-> Tracks[1]], occs) :
        shape \in FrameShapes, nf \in 2..MaxFrames,
        sh \in {<<3, 1>>, <<1, 1>>, <<2, 2>>, <<3, 2>>},
        occs \in [1..MaxParticles -> OccPatterns]}

IdxSet == (0 - MaxFrames - 1)..(MaxFrames + 1)

----------------------------------------------------------------------------
(* Calls on one KubricSequence                                             *)

Idle == [op |-> "none", idx |-> 0]

NoRet == [err |-> "none", steps |-> <<>>, value |-> <<>>, used |-> <<>>]

Result(r) == [err |-> r.err, steps |-> r.steps, value |-> r.value, used |-> r.used]

InitSeq ==
    /\ data \in WellFormed \cup Malformed
    /\ rgi \in IntervalRules
    /\ call = Idle
    /\ ret = NoRet
    /\ memo = <<>>
    /\ resolve = <<>>
    /\ fs = <<>>
    /\ files = <<>>

Len_ ==
    /\ call' = [op |-> "len", idx |-> 0]
    /\ ret' = Result(Returned(__len__(data), <<>>, <<>>, data))
    /\ UNCHANGED <<data, rgi, memo, resolve, fs, files>>

Intrinsics ==
    /\ call' = [op |-> "intrinsics", idx |-> 0]
    /\ ret' = Result(Returned(intrinsics(data), <<>>, <<>>, data))
    /\ data' = intrinsics_data(data)
    /\ UNCHANGED <<rgi, memo, resolve, fs, files>>

GetItem ==
    \E idx \in IdxSet :
        LET r == __getitem__(rgi, data, idx)
        IN  /\ call' = [op |-> "getitem", idx |-> idx]
            /\ ret' = Result(r)
            /\ data' = r.data
            /\ UNCHANGED <<rgi, memo, resolve, fs, files>>

Next == Len_ \/ Intrinsics \/ GetItem

Spec == InitSeq /\ [][Next]_vars

----------------------------------------------------------------------------
(* Properties of __getitem__ and __len__                                   *)

\* The frame the last call's index selects
F == PyIndex(FrameCount(data), call.idx)

Particles == 1..Len(data.occluded)

Occluded(p) == data.occluded[p][F]

Coord(p) == data.target_points.pts[p][F]

GoodShapes ==
    /\ data.target_points.cols = 2
    /\ Len(data.depth_video[1][1][1]) = 1

\* A __getitem__ whose index selects a frame
OnFrame == call.op = "getitem" /\ ValidIndex(FrameCount(data), call.idx)

Sampled == call.op = "getitem" /\ ret.err = "none"

Sample == ret.value[1]

\* The depth particle p's own coordinates resolve to at frame F
OwnDepth(p) ==
    _image_space_to_depth(rgi, [cols |-> 2, rows |-> <<Coord(p)>>],
                          data.depth_video[F], "nearest").depths[1][1]

InFrame(p) ==
    LET H == Len(data.depth_video[F])
        W == Len(data.depth_video[F][1])
    IN  /\ ~FLess(Coord(p)[1], FInt(0)) /\ ~FLess(FInt(W - 1), Coord(p)[1])
        /\ ~FLess(Coord(p)[2], FInt(0)) /\ ~FLess(FInt(H - 1), Coord(p)[2])

Zero3 == <<FInt(0), FInt(0), FInt(0)>>

\* C1: in every returned sample each occluded particle has position (0,0,0)
\* and a true flag, wherever its 2-D coordinates lie; and a call on a
\* well-shaped frame whose unoccluded particles all resolve to finite depths
\* returns a sample, whatever the occluded particles' coordinates are.
C1_OccludedZeroed ==
    /\ Sampled =>
          \A p \in Particles :
              Occluded(p) =>
                  /\ Sample.particles.points[p] = Zero3
                  /\ Sample.particles.is_occluded[p] = TRUE
    /\ (/\ OnFrame
        /\ GoodShapes
        /\ \A p \in Particles : ~Occluded(p) => IsFinite(OwnDepth(p)))
       => ret.err = "none"

\* An occluded particle off the frame next to an unoccluded one, in a sample
C1_Witness ==
    /\ Sampled
    /\ \E p, q \in Particles :
          /\ Occluded(p) /\ ~InFrame(p)
          /\ ~Occluded(q)
          /\ Sample.particles.points[p] = Zero3

\* C2: if some unoccluded particle of the frame resolves to a non-finite depth,
\* __getitem__ raises AssertionError and returns no sample.
C2_NonFiniteIsFatal ==
    (/\ OnFrame
     /\ GoodShapes
     /\ \E p \in Particles : ~Occluded(p) /\ ~IsFinite(OwnDepth(p)))
    => (ret.err = "AssertionError" /\ ret.value = <<>>)

\* One unoccluded particle resolves to a non-finite depth, another to a finite one
C2_Witness ==
    /\ OnFrame
    /\ GoodShapes
    /\ \E p, q \in Particles :
          /\ ~Occluded(p) /\ ~IsFinite(OwnDepth(p))
          /\ ~Occluded(q) /\ IsFinite(OwnDepth(q))
    /\ ret.err = "AssertionError"

\* C3: no sample is returned for an index at len(sequence) or beyond.
C3_IndexAtLenFails ==
    (call.op = "getitem" /\ call.idx >= __len__(data)) => ret.value = <<>>

\* C6: a returned sample has one 3-D slot per particle, and each unoccluded
\* particle's slot is the back-projection of its own coordinates and its own
\* resolved depth, all three coordinates finite.
C6_ParticlesBackProjected ==
    Sampled =>
        /\ Len(Sample.particles.points) = Len(data.target_points.pts)
        /\ \A p \in Particles :
              ~Occluded(p) =>
                  /\ Sample.particles.points[p] =
                        Unproject(Coord(p)[1], Coord(p)[2], OwnDepth(p),
                                  intrinsics(data))
                  /\ \A i \in 1..3 : IsFinite(Sample.particles.points[p][i])

\* A sample in which an occluded particle precedes an unoccluded one
C6_Witness ==
    /\ Sampled
    /\ \E p, q \in Particles :
          /\ p < q
          /\ Occluded(p)
          /\ ~Occluded(q) /\ InFrame(q)
          /\ Sample.particles.points[q] # Zero3

\* C7: on a frame whose coordinate rows do not have 2 columns or whose depth
\* map does not have 1 channel, _image_space_to_depth raises AssertionError
\* before the interpolator is built or called, and __getitem__ raises it
\* before any pose, point cloud or particle frame is built.
C7_MalformedFailsFast ==
    (OnFrame /\ ~GoodShapes) =>
        /\ ret.err = "AssertionError"
        /\ ret.steps = <<>>
        /\ ret.value = <<>>
        /\ LET all == [cols |-> data.target_points.cols,
                       rows |-> [p \in Particles |-> Coord(p)]]
               r == _image_space_to_depth(rgi, all, data.depth_video[F],
                                          "nearest")
           IN  r.err = "AssertionError" /\ r.steps = <<>>

\* A malformed frame all of whose particles are occluded
C7_Witness ==
    /\ OnFrame
    /\ ~GoodShapes
    /\ \A p \in Particles : Occluded(p)
    /\ ret.err = "AssertionError"

----------------------------------------------------------------------------
(* Calls on one KubricSequence, with one earlier call remembered           *)

HistFamily ==
    {MkData(shape, nf, 2, 1, CHOOSE h \in Holes : h.r = 0, TracksFrom(1), occs) :
        shape \in FrameShapes, nf \in 2..MaxFrames,
        occs \in [1..MaxParticles -> OccPatterns]}

InitHist ==
    /\ data \in HistFamily
    /\ rgi \in IntervalRules
    /\ call = Idle
    /\ ret = NoRet
    /\ memo = <<>>
    /\ resolve = <<>>
    /\ fs = <<>>
    /\ files = <<>>

\* memo after the call c, made on self.data = d, returned r: the call is
\* remembered, or an earlier one is kept and marked when c differs from it
Remember(c, r, d) ==
    \/ memo' = <<[call |-> c, ret |-> r, data |-> d, others |-> FALSE]>>
    \/ /\ memo # <<>>
       /\ memo' = <<[memo[1] EXCEPT !.others = @ \/ memo[1].call # c]>>

LenHist ==
    /\ call' = [op |-> "len", idx |-> 0]
    /\ ret' = Result(Returned(__len__(data), <<>>, <<>>, data))
    /\ Remember(call', ret', data)
    /\ UNCHANGED <<data, rgi, resolve, fs, files>>

IntrinsicsHist ==
    /\ call' = [op |-> "intrinsics", idx |-> 0]
    /\ ret' = Result(Returned(intrinsics(data), <<>>, <<>>, data))
    /\ data' = intrinsics_data(data)
    /\ Remember(call', ret', data)
    /\ UNCHANGED <<rgi, resolve, fs, files>>

GetItemHist ==
    \E idx \in IdxSet :
        LET r == __getitem__(rgi, data, idx)
        IN  /\ call' = [op |-> "getitem", idx |-> idx]
            /\ ret' = Result(r)
            /\ data' = r.data
            /\ Remember(call', ret', data)
            /\ UNCHANGED <<rgi, resolve, fs, files>>

NextHist == LenHist \/ IntrinsicsHist \/ GetItemHist

SpecHist == InitHist /\ [][NextHist]_vars

\* C8: the loaded data is what it was before any remembered earlier call, a
\* call repeated after other calls returns what it returned before, and the
\* two back-projections of one __getitem__ are handed the same intrinsics.
C8_ReadOnly ==
    /\ memo # <<>> =>
          /\ memo[1].data = data
          /\ memo[1].call = call => memo[1].ret = ret
    /\ Sampled => ret.used[1] = ret.used[2]

\* A __getitem__ that returned a sample, repeated after a different call
C8_Witness ==
    /\ memo # <<>>
    /\ memo[1].others
    /\ memo[1].call = call
    /\ Sampled
    /\ memo[1].ret = ret

----------------------------------------------------------------------------
(* Direct calls of _image_space_to_depth                                   *)

\* An H x W x 1 depth map with distinct finite depths, one pixel of which may
\* hold NaN or +inf
DepthMaps ==
    {[r \in 1..H |-> [c \in 1..W |->
         <<IF hole[1] = r /\ hole[2] = c THEN hole[3] ELSE FInt((r - 1) * W + c)>>]] :
        <<H, W, hole>> \in
            {<<H, W, hole>> \in (2..MaxDim) \X (2..MaxDim)
                                \X ((0..MaxDim) \X (0..MaxDim) \X {NaN, PosInf}) :
                /\ hole[1] <= H /\ hole[2] <= W
                /\ (hole[1] = 0) = (hole[2] = 0)
                /\ hole[1] = 0 => hole[3] = NaN}}

\* Query coordinates: the half pixels from -3/2 to MaxDim + 1/2, and NaN
Coords == {Rat(k, 2) : k \in (0 - 3)..(2 * MaxDim + 1)} \cup {NaN}

InitDepth ==
    /\ resolve \in
          [positions : {[cols |-> 2, rows |-> <<<<x, y>>>>] : x, y \in Coords},
           depth_entries : DepthMaps,
           interpolation_type : {"nearest", "linear"}]
    /\ rgi \in IntervalRules
    /\ call = Idle
    /\ ret = NoRet
    /\ data = <<>>
    /\ memo = <<>>
    /\ fs = <<>>
    /\ files = <<>>

ImageSpaceToDepth ==
    /\ call = Idle
    /\ LET r == _image_space_to_depth(rgi, resolve.positions,
                                      resolve.depth_entries,
                                      resolve.interpolation_type)
       IN  ret' = [err |-> r.err, steps |-> r.steps, value |-> r.depths,
                   used |-> <<>>]
    /\ call' = [op |-> "_image_space_to_depth", idx |-> 0]
    /\ UNCHANGED <<data, rgi, memo, resolve, fs, files>>

NextDepth == ImageSpaceToDepth

SpecDepth == InitDepth /\ [][NextDepth]_vars

Resolved == call.op = "_image_space_to_depth"

Nearest == Resolved /\ resolve.interpolation_type = "nearest"

QueryX == resolve.positions.rows[1][1]

QueryY == resolve.positions.rows[1][2]

MapH == Len(resolve.depth_entries)

MapW == Len(resolve.depth_entries[1])

\* x lies outside 0 .. n-1
Outside(x, n) == FLess(x, FInt(0)) \/ FLess(FInt(n - 1), x)

OnGrid(x, n) == IsFinite(x) /\ ~Outside(x, n)

\* C4 as stated: in nearest mode every query outside [0, H-1] x [0, W-1]
\* yields NaN and no error.
C4_OutsideIsNaN ==
    (Nearest /\ (Outside(QueryY, MapH) \/ Outside(QueryX, MapW)))
    => (ret.err = "none" /\ ret.value = <<<<NaN>>>>)

\* C4 amended: in nearest mode every query whose rounded coordinates lie
\* outside [0, H-1] x [0, W-1] yields NaN and no error.
C4_RoundedOutsideIsNaN ==
    (Nearest /\ (\/ Outside(NpRound(QueryY), MapH)
                 \/ Outside(NpRound(QueryX), MapW)))
    => (ret.err = "none" /\ ret.value = <<<<NaN>>>>)

\* A query half a pixel beyond the border that rounds off the grid
C4_Witness ==
    /\ Nearest
    /\ OnGrid(QueryY, MapH)
    /\ QueryX = FAdd(FInt(MapW - 1), Rat(1, 2))
    /\ Outside(NpRound(QueryX), MapW)
    /\ ret.value = <<<<NaN>>>>

\* C5: in nearest mode a query whose rounded coordinates lie on the grid
\* yields exactly the depth stored at row round(y), column round(x).
C5_NearestIsStored ==
    (Nearest /\ OnGrid(NpRound(QueryY), MapH) /\ OnGrid(NpRound(QueryX), MapW))
    => /\ ret.err = "none"
       /\ ret.value = <<<<resolve.depth_entries[NpRound(QueryY)[1] + 1]
                                               [NpRound(QueryX)[1] + 1][1]>>>>

----------------------------------------------------------------------------
(* KubricSequence.intrinsics over the metadata                             *)

\* A bundle with focal_length fn/2, the given sensor width and frame size,
\* and no frames
MetaOnly(fn, sw, w, h) ==
    [camera |-> [focal_length |-> Rat(fn, 2), sensor_width |-> FInt(sw),
                 positions |-> <<>>, quaternions |-> <<>>],
     metadata |-> [width |-> FInt(w), height |-> FInt(h), num_frames |-> 1],
     rgb_video |-> <<>>,
     depth_video |-> <<>>,
     target_points |-> [cols |-> 2, pts |-> <<>>],
     occluded |-> <<>>]

InitIntr ==
    /\ data \in {MetaOnly(fn, sw, w, h) : fn, sw, w, h \in 1..MaxMeta}
    /\ rgi \in IntervalRules
    /\ call = Idle
    /\ ret = NoRet
    /\ memo = <<>>
    /\ resolve = <<>>
    /\ fs = <<>>
    /\ files = <<>>

NextIntr == Intrinsics

SpecIntr == InitIntr /\ [][NextIntr]_vars

\* C10: cx = width/2 and cy = height/2 exactly,
\* fx = (2 * focal_length / sensor_width) * (width / 2), fy = fx * (width / height).
C10_Intrinsics ==
    call.op = "intrinsics" =>
        LET K == ret.value[1]
            fl == data.camera.focal_length
            sw == data.camera.sensor_width[1]
            w == data.metadata.width[1]
            h == data.metadata.height[1]
        IN  /\ K.cx = Rat(w, 2)
            /\ K.cy = Rat(h, 2)
            /\ K.fx = Rat(2 * fl[1] * w, fl[2] * sw * 2)
            /\ K.fy = Rat(K.fx[1] * w, K.fx[2] * h)

\* Intrinsics of a frame of odd width and odd height
C10_Witness ==
    /\ call.op = "intrinsics"
    /\ data.metadata.width[1] % 2 = 1
    /\ data.metadata.height[1] % 2 = 1
    /\ data.metadata.width # data.metadata.height
    /\ ret.value[1].cx[2] = 2

----------------------------------------------------------------------------
(* KubricSequenceLoader over a storage directory                           *)

\* A file is <<stem, suffix>>; the directory holds stem.pkl for the stems of
\* 1 .. MaxStem and one file of another suffix.  fs maps each present file to
\* the bundle it holds (1 as first written, 2 once rewritten).
Pkl(n) == <<n, "pkl">>

AllFiles == {Pkl(n) : n \in 1..MaxStem} \cup {<<1, "txt">>}

\* root_dir.glob("*.pkl"), as a set
Matching(dir) == {f \in DOMAIN dir : f[2] = "pkl"}

\* The orders in which glob may yield the set S
RECURSIVE Orders(_)
Orders(S) ==
    IF S = {} THEN {<<>>}
    ELSE UNION {{<<x>> \o o : o \in Orders(S \ {x})} : x \in S}

\* Path order: by name
PathLess(f, g) == f[1] < g[1]

RECURSIVE Insert(_, _)
Insert(x, sq) ==
    IF sq = <<>> THEN <<x>>
    ELSE IF PathLess(x, Head(sq)) THEN <<x>> \o sq
    ELSE <<Head(sq)>> \o Insert(x, Tail(sq))

\* Variant: the glob order kept
unsorted(sq) == sq

RECURSIVE sorted(_)
sorted(sq) == IF sq = <<>> THEN <<>> ELSE Insert(Head(sq), sorted(Tail(sq)))

\* KubricSequence(data_file) through _load_pkl
_load_pkl(dir, pkl_file) ==
    IF pkl_file \notin DOMAIN dir
    THEN [err |-> "AssertionError", steps |-> <<>>, value |-> <<>>, used |-> <<>>]
    ELSE [err |-> "none", steps |-> <<"pickle.load">>,
          value |-> <<[data |-> dir[pkl_file]]>>, used |-> <<>>]

InitLoader ==
    /\ fs \in UNION {[S -> {1}] : S \in SUBSET AllFiles}
    /\ files = <<>>
    /\ call = Idle
    /\ ret = NoRet
    /\ data = <<>>
    /\ rgi = "find_interval"
    /\ memo = <<>>
    /\ resolve = <<>>

\* Another process writes or rewrites a file
WriteFile ==
    \E f \in AllFiles :
        /\ fs' = [g \in DOMAIN fs \cup {f} |->
                     IF g = f THEN (IF f \in DOMAIN fs THEN 2 ELSE 1) ELSE fs[g]]
        /\ call' = [op |-> "write", idx |-> 0]
        /\ UNCHANGED <<files, ret, data, rgi, memo, resolve>>

\* Another process removes a file
DeleteFile ==
    \E f \in DOMAIN fs :
        /\ fs' = [g \in DOMAIN fs \ {f} |-> fs[g]]
        /\ call' = [op |-> "delete", idx |-> 0]
        /\ UNCHANGED <<files, ret, data, rgi, memo, resolve>>

\* KubricSequenceLoader(root_dir); a failed construction leaves no new loader
LoaderInit ==
    \E order \in Orders(Matching(fs)) :
        LET found == sorted(order)
        IN  /\ call' = [op |-> "loader_init", idx |-> 0]
            /\ IF Len(found) > 0
               THEN /\ files' = found
                    /\ ret' = [NoRet EXCEPT !.steps = <<"glob">>]
               ELSE /\ files' = files
                    /\ ret' = [NoRet EXCEPT !.err = "AssertionError"]
            /\ UNCHANGED <<fs, data, rgi, memo, resolve>>

LoaderLen ==
    /\ files # <<>>
    /\ call' = [op |-> "loader_len", idx |-> 0]
    /\ ret' = [NoRet EXCEPT !.value = <<Len(files)>>]
    /\ UNCHANGED <<fs, files, data, rgi, memo, resolve>>

LoaderGetItem ==
    \E idx \in (0 - MaxStem - 1)..MaxStem :
        /\ files # <<>>
        /\ call' = [op |-> "loader_getitem", idx |-> idx]
        /\ ret' = IF ValidIndex(Len(files), idx)
                  THEN _load_pkl(fs, files[PyIndex(Len(files), idx)])
                  ELSE [NoRet EXCEPT !.err = "IndexError"]
        /\ UNCHANGED <<fs, files, data, rgi, memo, resolve>>

NextLoader == WriteFile \/ DeleteFile \/ LoaderInit \/ LoaderLen \/ LoaderGetItem

SpecLoader == InitLoader /\ [][NextLoader]_vars

Ascending(sq) == \A i, j \in 1..Len(sq) : i < j => PathLess(sq[i], sq[j])

\* C9: construction raises AssertionError exactly when no file matches, and
\* otherwise lists the matching files in name order; len(loader) is their
\* number; loader[i] loads the i-th listed file as it is in storage at that
\* moment, and raises AssertionError when that file is gone.
C9_Loader ==
    /\ Ascending(files)
    /\ call.op = "loader_init" =>
          /\ (ret.err = "AssertionError") = (Matching(fs) = {})
          /\ ret.err = "none" =>
                /\ {files[i] : i \in 1..Len(files)} = Matching(fs)
                /\ Len(files) = Cardinality(Matching(fs))
    /\ call.op = "loader_len" => ret.value = <<Len(files)>>
    /\ (call.op = "loader_getitem" /\ call.idx \in 0..(Len(files) - 1)) =>
          LET f == files[call.idx + 1]
          IN  IF f \in DOMAIN fs
              THEN ret.err = "none" /\ ret.value = <<[data |-> fs[f]]>>
              ELSE ret.err = "AssertionError" /\ ret.value = <<>>

\* loader[i], i > 0, on a file removed since the loader listed the directory,
\* while another listed file has been rewritten
C9_Witness ==
    /\ call.op = "loader_getitem"
    /\ call.idx \in 1..(Len(files) - 1)
    /\ files[call.idx + 1] \notin DOMAIN fs
    /\ \E i \in 1..Len(files) : files[i] \in DOMAIN fs /\ fs[files[i]] = 2
    /\ ret.err = "AssertionError"

====
